---- MODULE Spec2Model ----
(***************************************************************************)
(* BIP-48 P2WSH multisig derivation (src/src/index.ts).                    *)
(*                                                                         *)
(* The library is three pure stages: normalizeToNeutralPub (SLIP-132       *)
(* prefix -> neutral xpub/tpub), buildBip48P2wshAddress (one address and   *)
(* two descriptors) and deriveBip48Addresses (a range of indices).  The    *)
(* state machine below is a caller that invokes these entry points on      *)
(* inputs drawn from bounded sets; the variables record the call, its      *)
(* outcome (return value or thrown error) and the console.warn log.        *)
(*                                                                         *)
(* Representation of the data the code handles:                            *)
(*  - an extended-key STRING is a record [pfx, chk, payload]: pfx is its   *)
(*    first four characters (what key.slice(0, 4) returns), chk says       *)
(*    whether its base58check checksum verifies, payload is the byte       *)
(*    sequence it decodes to, as [version, len, body];                     *)
(*  - body is [depth, parentFingerprint, index, chainCode, publicKey],     *)
(*    the BIP-32 fields after the 4 version bytes, as small integers;      *)
(*  - a thrown Error is an outcome [ok |-> FALSE, error |-> message].      *)
(***************************************************************************)
EXTENDS Integers, Sequences, FiniteSets, TLC

(***************************************************************************)
(* Bounds of the model.                                                    *)
(***************************************************************************)
\* number of distinct key materials (chain code / public key) in the inputs
NumMaterial == 2
\* cosigner lists of every length 0..MaxLen are tried, besides 15 and 16
MaxLen == 2
\* largest count passed to deriveBip48Addresses
MaxCount == 3
\* child numbers are modelled on a scaled-down range: numbers >= HardenedOffset
\* stand for the hardened range (>= 0x80000000), which a public key cannot derive
HardenedOffset == 6

(***************************************************************************)
(* Outcomes: a returned value or a thrown error.                           *)
(***************************************************************************)
Ok(v) == [ok |-> TRUE, error |-> "", value |-> v]

Throw(msg) == [ok |-> FALSE, error |-> msg, value |-> <<>>]

\* an optional argument: omitted (undefined) or supplied
Undefined(dflt) == [set |-> FALSE, val |-> dflt]

Some(v) == [set |-> TRUE, val |-> v]

(***************************************************************************)
(* SLIP-132 version table and prefix helpers.                              *)
(***************************************************************************)
VERSIONS ==
  [mainnet |-> [xpub |-> 76067358, ypub |-> 77429938, zpub |-> 78792518,
                Ypub |-> 43365439, Zpub |-> 44728019],
   testnet |-> [tpub |-> 70617039, upub |-> 71979618, vpub |-> 73342198,
                Upub |-> 37915119, Vpub |-> 39277699]]

isMainnetPrefix(p) == p \in DOMAIN VERSIONS.mainnet

isTestnetPrefix(p) == p \in DOMAIN VERSIONS.testnet

\* null is modelled as the string "null", which is no four-character prefix
detectPrefix(key) ==
  LET p == key.pfx
  IN IF isMainnetPrefix(p) \/ isTestnetPrefix(p) THEN p ELSE "null"

prefixNetwork(prefix) == IF isMainnetPrefix(prefix) THEN "mainnet" ELSE "testnet"

(***************************************************************************)
(* bs58check, as used by replaceVersion and by bip32.fromBase58.           *)
(* A 78-byte payload encodes to a string whose first four characters are   *)
(* fixed by its version bytes (this is what SLIP-132 prefixes are); the    *)
(* private-key versions of the two networks and one foreign version are    *)
(* included so that not every payload reads as a known public prefix.      *)
(***************************************************************************)
ExtKeyLen == 78

OtherVersions == [xprv |-> 76066276, tprv |-> 70615956, Ltub |-> 27108450]

prefixesOfVersion(v) ==
  {p \in DOMAIN VERSIONS.mainnet : VERSIONS.mainnet[p] = v}
  \cup {p \in DOMAIN VERSIONS.testnet : VERSIONS.testnet[p] = v}
  \cup {p \in DOMAIN OtherVersions : OtherVersions[p] = v}

textOf(len, hits) == IF len = ExtKeyLen /\ hits # {} THEN CHOOSE p \in hits : TRUE ELSE "????"

\* the first four characters of the encoding of payload
TextPrefix(payload) == textOf(payload.len, prefixesOfVersion(payload.version))

\* a decoder that does not verify the checksum
bs58checkDecode_NoChecksum(str) == Ok(str.payload)

bs58checkDecode(str) == IF str.chk THEN Ok(str.payload) ELSE Throw("Invalid checksum")

bs58checkEncode(payload) == [pfx |-> TextPrefix(payload), chk |-> TRUE, payload |-> payload]

(***************************************************************************)
(* Key Normalizer.                                                         *)
(***************************************************************************)
\* a rewrite that also clears the byte after the version (the depth)
writeVersion_ClearsDepth(data, toVersion) ==
  IF ~data.ok THEN data
  ELSE IF data.value.len < 4 THEN Throw("Extended key too short")
  ELSE Ok(bs58checkEncode([data.value EXCEPT !.version = toVersion, !.body.depth = 0]))

\* replaceVersion once bs58check.decode has run: data is its outcome
writeVersion(data, toVersion) ==
  IF ~data.ok THEN data
  ELSE IF data.value.len < 4 THEN Throw("Extended key too short")
  ELSE Ok(bs58checkEncode([data.value EXCEPT !.version = toVersion]))

replaceVersion(extKey, toVersion) == writeVersion(bs58checkDecode(extKey), toVersion)

\* the neutral versions of the two networks exchanged
neutralVersion_Swapped(net) ==
  IF net = "mainnet" THEN VERSIONS.testnet.tpub ELSE VERSIONS.mainnet.xpub

neutralVersion(net) ==
  IF net = "mainnet" THEN VERSIONS.mainnet.xpub ELSE VERSIONS.testnet.tpub

alreadyNeutral(net, pref) ==
  (net = "mainnet" /\ pref = "xpub") \/ (net = "testnet" /\ pref = "tpub")

\* the object normalizeToNeutralPub returns, from the outcome of its neutral field
neutralPub(neutral, net) ==
  IF ~neutral.ok THEN neutral ELSE Ok([neutral |-> neutral.value, network |-> net])

\* normalizeToNeutralPub once the prefix and its network are known
normalizeKnown(extKey, pref, net) ==
  IF alreadyNeutral(net, pref) THEN neutralPub(Ok(extKey), net)
  ELSE neutralPub(replaceVersion(extKey, neutralVersion(net)), net)

normalizeDetected(extKey, pref) ==
  IF pref = "null" THEN Throw("Unknown extended key prefix")
  ELSE normalizeKnown(extKey, pref, prefixNetwork(pref))

normalizeToNeutralPub(extKey) == normalizeDetected(extKey, detectPrefix(extKey))

(***************************************************************************)
(* Networks: networks.bitcoin and networks.testnet of bitcoinjs-lib, and   *)
(* the signetNetwork the module defines (testnet's bech32 part and         *)
(* version bytes).                                                         *)
(***************************************************************************)
bitcoinNetwork == [bech32 |-> "bc", bip32 |-> [public |-> 76067358, private |-> 76066276]]

testnetNetwork == [bech32 |-> "tb", bip32 |-> [public |-> 70617039, private |-> 70615956]]

signetNetwork == [bech32 |-> "tb", bip32 |-> [public |-> 70617039, private |-> 70615956]]

(***************************************************************************)
(* bip32: parsing an extended key against a network and non-hardened       *)
(* child derivation.  The elliptic-curve arithmetic is replaced by an      *)
(* arithmetic mixing of (publicKey, chainCode, index) modulo a prime: what *)
(* matters to the builder is that the child is a function of the parent    *)
(* material and the index, and that its order is unrelated to the order    *)
(* of the parents.                                                         *)
(***************************************************************************)
\* fromBase58 once bs58check.decode has run: buffer is its outcome
parseBuffer(buffer, network) ==
  IF ~buffer.ok THEN buffer
  ELSE IF buffer.value.len # ExtKeyLen THEN Throw("Invalid buffer length")
  ELSE IF buffer.value.version # network.bip32.private
          /\ buffer.value.version # network.bip32.public
       THEN Throw("Invalid network version")
  ELSE IF buffer.value.version = network.bip32.private THEN Throw("Invalid private key")
  ELSE Ok(buffer.value.body)

fromBase58(str, network) == parseBuffer(bs58checkDecode(str), network)

derive(node, i) ==
  IF i < 0 \/ i >= 2 * HardenedOffset THEN Throw("Expected UInt32")
  ELSE IF i >= HardenedOffset THEN Throw("Missing private key for hardened child key")
  ELSE Ok([depth |-> node.depth + 1,
           parentFingerprint |-> (node.publicKey * 11 + 3) % 251,
           index |-> i,
           chainCode |-> (3 * node.chainCode + node.publicKey + 2 * i + 5) % 251,
           publicKey |-> (7 * node.publicKey + 5 * node.chainCode * (i + 1) + 13 * i + 1) % 251])

\* node.derive(i) on the outcome of the previous step of a call chain
thenDerive(node, i) == IF ~node.ok THEN node ELSE derive(node.value, i)

\* Buffer.from(child.publicKey)
publicKeyOf(child) == IF ~child.ok THEN child ELSE Ok(child.value.publicKey)

(***************************************************************************)
(* bitcoinjs-lib payments: the bare multisig script OP_m <keys> OP_n       *)
(* OP_CHECKMULTISIG, each key pushed with its length byte, and its P2WSH   *)
(* wrapper.  A public key is one byte here, so a script is a sequence of   *)
(* byte values and its hex form a string of two digits per byte.  The      *)
(* SHA-256 / bech32 of the address is kept as the network's human-readable *)
(* part, the separator and witness version "1q", then the script hex in    *)
(* place of the encoded hash (the hash is injective for every purpose      *)
(* here).                                                                  *)
(***************************************************************************)
HexDigit == <<"0", "1", "2", "3", "4", "5", "6", "7", "8", "9", "a", "b", "c", "d", "e", "f">>

byteHex(b) == HexDigit[(b \div 16) + 1] \o HexDigit[(b % 16) + 1]

RECURSIVE toHex(_)
toHex(bytes) == IF bytes = <<>> THEN "" ELSE byteHex(Head(bytes)) \o toHex(Tail(bytes))

RECURSIVE pushKeys(_)
pushKeys(pubkeys) ==
  IF pubkeys = <<>> THEN <<>> ELSE <<33, Head(pubkeys)>> \o pushKeys(Tail(pubkeys))

p2ms(m, pubkeys) == <<80 + m>> \o pushKeys(pubkeys) \o <<80 + Len(pubkeys), 174>>

p2wshAddress(output, network) == network.bech32 \o "1q" \o toHex(output)

(***************************************************************************)
(* Array.prototype.sort with Buffer.compare: ascending byte order.         *)
(***************************************************************************)
RECURSIVE insertSorted(_, _)
insertSorted(x, sorted) ==
  IF sorted = <<>> THEN <<x>>
  ELSE IF x <= Head(sorted) THEN <<x>> \o sorted
  ELSE <<Head(sorted)>> \o insertSorted(x, Tail(sorted))

\* the child keys left in input order
sortPubkeys_Unsorted(keys) == keys

RECURSIVE sortPubkeys(_)
sortPubkeys(keys) ==
  IF keys = <<>> THEN <<>> ELSE insertSorted(Head(keys), sortPubkeys(Tail(keys)))

(***************************************************************************)
(* Address Builder.  m is a JavaScript number: [num, den] is num/den, so   *)
(* that non-integer thresholds are inputs too.  The function is split at   *)
(* the points where it can throw: each stage takes what the stages before  *)
(* it have computed.                                                       *)
(***************************************************************************)
isInteger(x) == x.num % x.den = 0

MaxCosigners == 15

\* the two guards that open buildBip48P2wshAddress; "" when both pass
\* a count guard that already rejects the fifteenth cosigner
thresholdGuard_OffByOne(m, xpubs) ==
  IF ~isInteger(m) \/ m.num < 1 * m.den \/ m.num > Len(xpubs) * m.den
  THEN "Invalid threshold m"
  ELSE IF Len(xpubs) >= MaxCosigners THEN "Too many cosigners"
  ELSE ""

thresholdGuard(m, xpubs) ==
  IF ~isInteger(m) \/ m.num < 1 * m.den \/ m.num > Len(xpubs) * m.den
  THEN "Invalid threshold m"
  ELSE IF Len(xpubs) > MaxCosigners THEN "Too many cosigners"
  ELSE ""

\* Array.prototype.map over a throwing callback: the first throw ends the map
prepend(first, rest) ==
  IF ~first.ok THEN first
  ELSE IF ~rest.ok THEN rest
  ELSE Ok(<<first.value>> \o rest.value)

\* xpubs.map(normalizeToNeutralPub)
RECURSIVE mapNormalize(_)
mapNormalize(xpubs) ==
  IF xpubs = <<>> THEN Ok(<<>>)
  ELSE prepend(normalizeToNeutralPub(Head(xpubs)), mapNormalize(Tail(xpubs)))

\* a mixed-network test that compares the last key with the first only
mixedNetworks_FirstAndLast(normalized) ==
  normalized[Len(normalized)].network # normalized[1].network

mixedNetworks(normalized) ==
  \E n \in 1..Len(normalized) : normalized[n].network # normalized[1].network

\* a resolution that ignores the caller's override
chosenNet_Inferred(req, detectedNet) == detectedNet

chosenNet(req, detectedNet) == IF req.network.set THEN req.network.val ELSE detectedNet

networkOf(chosen) ==
  IF chosen = "mainnet" THEN bitcoinNetwork
  ELSE IF chosen = "signet" THEN signetNetwork
  ELSE testnetNetwork

singleSigPrefixes == {"zpub", "ypub", "vpub", "upub"}

\* strict mode defaulting to off
strictBip48Of_DefaultOff(req) == IF req.strictBip48.set THEN req.strictBip48.val ELSE FALSE

strictBip48Of(req) == IF req.strictBip48.set THEN req.strictBip48.val ELSE TRUE

\* the body of the strict-mode loop for one key: its console.warn calls
warnFor(raw, p) ==
  IF p # "null" /\ p \in singleSigPrefixes THEN <<[raw |-> raw, p |-> p]>> ELSE <<>>

RECURSIVE warnEach(_)
warnEach(xpubs) ==
  IF xpubs = <<>> THEN <<>>
  ELSE warnFor(Head(xpubs), detectPrefix(Head(xpubs))) \o warnEach(Tail(xpubs))

\* what the strict-mode block writes to console.warn, in order
strictWarnings(req) == IF strictBip48Of(req) THEN warnEach(req.xpubs) ELSE <<>>

childPubkey(neutral, network, change, index) ==
  publicKeyOf(thenDerive(thenDerive(fromBase58(neutral, network), change), index))

\* normalized.map(({ neutral }) => ...)
RECURSIVE childPubkeys(_, _, _, _)
childPubkeys(normalized, network, change, index) ==
  IF normalized = <<>> THEN Ok(<<>>)
  ELSE prepend(childPubkey(Head(normalized).neutral, network, change, index),
               childPubkeys(Tail(normalized), network, change, index))

\* template keys listed in ascending order of their public key bytes
templateKeys_Sorted(normalized) ==
  LET n == Len(normalized)
      pk(j) == normalized[j].neutral.payload.body.publicKey
      rank(j) == 1 + Cardinality({k \in 1..n : pk(k) < pk(j) \/ (pk(k) = pk(j) /\ k < j)})
  IN [r \in 1..n |->
        [key |-> normalized[CHOOSE j \in 1..n : rank(j) = r].neutral, path |-> "/0/*"]]

templateKeys(normalized) ==
  [n \in 1..Len(normalized) |-> [key |-> normalized[n].neutral, path |-> "/0/*"]]

\* a concrete suffix with change and index exchanged
concretKeys_Swapped(normalized, change, index) ==
  [n \in 1..Len(normalized) |->
     [key |-> normalized[n].neutral,
      path |-> "/" \o ToString(index) \o "/" \o ToString(change)]]

concretKeys(normalized, change, index) ==
  [n \in 1..Len(normalized) |->
     [key |-> normalized[n].neutral,
      path |-> "/" \o ToString(change) \o "/" \o ToString(index)]]

\* `wsh(sortedmulti(${m},${keys.join(',')}))`
descriptor(m, keys) ==
  [open |-> "wsh(sortedmulti(", m |-> ToString(m), keys |-> keys, close |-> "))"]

\* the returned MultisigResult
multisigResult(m, normalized, network, output, change, index) ==
  [address |-> p2wshAddress(output, network),
   witnessScriptHex |-> toHex(output),
   redeemScriptHex |-> "undefined",
   descriptorTemplate |-> descriptor(m, templateKeys(normalized)),
   descriptorConcret |-> descriptor(m, concretKeys(normalized, change, index))]

\* from the child keys on: sort, script, address, descriptors
buildFromChildren(req, m, normalized, network, children, warned) ==
  IF ~children.ok THEN [result |-> children, warned |-> warned]
  ELSE [result |-> Ok(multisigResult(m, normalized, network,
                                     p2ms(m, sortPubkeys(children.value)),
                                     req.change, req.index)),
        warned |-> warned]

\* from the resolved network on: the strict-mode warnings, then the children
buildOnNetwork(req, normalized, network) ==
  buildFromChildren(req, req.m.num \div req.m.den, normalized, network,
                    childPubkeys(normalized, network, req.change, req.index),
                    strictWarnings(req))

\* from the normalized keys on: the network check and the network choice
buildNormalized(req, normalized) ==
  IF ~normalized.ok THEN [result |-> normalized, warned |-> <<>>]
  ELSE IF mixedNetworks(normalized.value)
       THEN [result |-> Throw("Mixed networks in keys"), warned |-> <<>>]
  ELSE buildOnNetwork(req, normalized.value,
                      networkOf(chosenNet(req, normalized.value[1].network)))

buildGuarded(req, guard) ==
  IF guard # "" THEN [result |-> Throw(guard), warned |-> <<>>]
  ELSE buildNormalized(req, mapNormalize(req.xpubs))

\* one call: [result |-> the outcome, warned |-> what it wrote to console.warn]
buildBip48P2wshAddress(req) == buildGuarded(req, thresholdGuard(req.m, req.xpubs))

(***************************************************************************)
(* Batch Deriver: the enums, the path string and the element pushed on     *)
(* results by one iteration of the loop.                                   *)
(***************************************************************************)
CoinType == [Mainnet |-> 0, Testnet |-> 1]

ScriptType == [P2WSH_P2SH |-> 1, P2WSH |-> 2]

ChangeChain == [External |-> 0, Internal |-> 1]

\* the destructuring defaults of deriveBip48Addresses
accountOf(params) == IF params.account.set THEN params.account.val ELSE 0

scriptTypeOf(params) ==
  IF params.scriptType.set THEN params.scriptType.val ELSE ScriptType.P2WSH

\* a coin type defaulting to mainnet
coinTypeOf_DefaultMainnet(params) ==
  IF params.coinType.set THEN params.coinType.val ELSE CoinType.Mainnet

coinTypeOf(params) == IF params.coinType.set THEN params.coinType.val ELSE CoinType.Testnet

\* { ...base, index }
baseRequest(params, index) ==
  [m |-> params.m, xpubs |-> params.xpubs, change |-> params.change, index |-> index,
   network |-> params.network, strictBip48 |-> params.strictBip48]

derivationPath(params, index) ==
  "m/48'/" \o ToString(coinTypeOf(params)) \o "'/" \o ToString(accountOf(params)) \o "'/"
  \o ToString(scriptTypeOf(params)) \o "'/" \o ToString(params.change) \o "/"
  \o ToString(index)

\* { ...res, index, path }
derivedResult(res, index, path) ==
  [address |-> res.address, witnessScriptHex |-> res.witnessScriptHex,
   redeemScriptHex |-> res.redeemScriptHex,
   descriptorTemplate |-> res.descriptorTemplate,
   descriptorConcret |-> res.descriptorConcret, index |-> index, path |-> path]

(***************************************************************************)
(* Inputs.                                                                 *)
(***************************************************************************)
\* account-level key material at m/48'/coin'/account'/2' (child number 2')
Material(i) ==
  [depth |-> 4,
   parentFingerprint |-> (i * 29 + 7) % 251,
   index |-> HardenedOffset + 2,
   chainCode |-> (i * 57 + 9) % 251,
   publicKey |-> (i * 83 + 40) % 251]

KnownPrefixes == DOMAIN VERSIONS.mainnet \cup DOMAIN VERSIONS.testnet

versionOf(p) ==
  IF p \in DOMAIN VERSIONS.mainnet THEN VERSIONS.mainnet[p]
  ELSE IF p \in DOMAIN VERSIONS.testnet THEN VERSIONS.testnet[p]
  ELSE OtherVersions[p]

\* the check-encoded string of a 78-byte extended key
ExtKey(p, i) ==
  bs58checkEncode([version |-> versionOf(p), len |-> ExtKeyLen, body |-> Material(i)])

\* every known prefix on the first material; a neutral, a multisig and a
\* single-sig prefix on the others
ValidKeys ==
  {ExtKey(p, 1) : p \in KnownPrefixes}
  \cup {ExtKey(p, i) : p \in {"xpub", "tpub", "Zpub", "vpub"}, i \in 2..NumMaterial}

\* strings that are no extended public key of a known family: the empty
\* string, text that is no base58check at all, keys with a damaged checksum,
\* check-encoded strings of fewer than 4 bytes, and a foreign version
BadKeys ==
  {[pfx |-> "", chk |-> FALSE, payload |-> [version |-> 0, len |-> 0, body |-> Material(1)]],
   [pfx |-> "notA", chk |-> FALSE, payload |-> [version |-> 0, len |-> 9, body |-> Material(1)]],
   [pfx |-> "xpub", chk |-> FALSE, payload |-> [version |-> 0, len |-> 13, body |-> Material(1)]],
   [ExtKey("Zpub", 1) EXCEPT !.chk = FALSE],
   [pfx |-> "Zpub", chk |-> TRUE, payload |-> [version |-> 0, len |-> 3, body |-> Material(1)]],
   [pfx |-> "xpub", chk |-> TRUE, payload |-> [version |-> 0, len |-> 3, body |-> Material(1)]],
   ExtKey("Ltub", 1)}

Keys == ValidKeys \cup BadKeys

\* the keys of the long lists and of the batch deriver
SampleKeys ==
  {ExtKey("tpub", i) : i \in 1..NumMaterial}
  \cup {ExtKey("vpub", 1), ExtKey("Zpub", 1)}

\* base repeated cyclically up to length n
Cycle(base, n) == [j \in 1..n |-> base[((j - 1) % Len(base)) + 1]]

\* every list of at most two keys, and the longer ones that repeat a pair
ShortLists == {Cycle(b, n) : b \in [1..1 -> Keys] \cup [1..2 -> Keys], n \in 0..MaxLen}

\* lists at the cosigner limit and one past it
LongLists ==
  {Cycle(b, n) : b \in [1..1 -> Keys] \cup [1..2 -> SampleKeys],
                 n \in {MaxCosigners, MaxCosigners + 1}}

Lists == ShortLists \cup LongLists

\* thresholds around the bounds of the guard, and a non-integer
ThresholdsFor(n) ==
  {[num |-> k, den |-> 1] : k \in {0, 1, n - 1, n, n + 1} \cap Nat}
  \cup {[num |-> 3, den |-> 2]}

Networks == {Undefined(""), Some("mainnet"), Some("testnet"), Some("signet")}

StrictFlags == {Undefined(FALSE), Some(TRUE), Some(FALSE)}

Changes == {ChangeChain.External, ChangeChain.Internal}

\* the optional path components: omitted, or a value that is not the default
PathOptions ==
  [account : {Undefined(0), Some(1)},
   scriptType : {Undefined(0), Some(ScriptType.P2WSH_P2SH)},
   coinType : {Undefined(0), Some(CoinType.Mainnet)}]

(***************************************************************************)
(* The state machine.  A caller holds a cosigner set (threshold and keys)  *)
(* and makes one call: normalizeToNeutralPub on one of its keys,           *)
(* buildBip48P2wshAddress, or deriveBip48Addresses, the latter one loop    *)
(* iteration per step.  The library keeps no state between calls, so one   *)
(* call per behaviour covers every call.                                   *)
(*                                                                         *)
(*   wallet    the caller's cosigner set [m, xpubs]                        *)
(*   pc        "idle", "loop" (inside the deriver's for loop), "returned"  *)
(*             or "thrown"                                                 *)
(*   fn        the entry point that was called                             *)
(*   key       the argument of normalizeToNeutralPub                       *)
(*   req       the request of the (latest) buildBip48P2wshAddress call     *)
(*   params    the argument of deriveBip48Addresses                        *)
(*   i         the deriver's loop variable                                 *)
(*   results   the deriver's local results array                           *)
(*   attempted the indices the deriver has passed to the builder           *)
(*   outcome   what the caller receives: a value or an error               *)
(*   warnings  the console.warn calls so far                               *)
(***************************************************************************)
VARIABLES wallet, pc, fn, key, req, params, i, results, attempted, outcome, warnings

vars == <<wallet, pc, fn, key, req, params, i, results, attempted, outcome, warnings>>

Init ==
  /\ \E xpubs \in Lists :
       \E m \in ThresholdsFor(Len(xpubs)) : wallet = [m |-> m, xpubs |-> xpubs]
  /\ pc = "idle"
  /\ fn = "none"
  /\ key = "none"
  /\ req = "none"
  /\ params = "none"
  /\ i = 0
  /\ results = <<>>
  /\ attempted = <<>>
  /\ outcome = "none"
  /\ warnings = <<>>

\* the caller receives the outcome of a call
Receive(out) ==
  /\ outcome' = out
  /\ pc' = IF out.ok THEN "returned" ELSE "thrown"

Built(call) ==
  /\ Receive(call.result)
  /\ warnings' = call.warned

\* the loop body after the builder has run on index
\* a loop body that skips a failing index and continues
Pushed_SkipFailure(index, call) ==
  /\ warnings' = warnings \o call.warned
  /\ results' = IF call.result.ok
                THEN Append(results, derivedResult(call.result.value, index,
                                                   derivationPath(params, index)))
                ELSE results
  /\ i' = i + 1
  /\ UNCHANGED <<pc, outcome>>

Pushed(index, call) ==
  /\ warnings' = warnings \o call.warned
  /\ IF call.result.ok
     THEN /\ results' = Append(results,
                               derivedResult(call.result.value, index,
                                             derivationPath(params, index)))
          /\ i' = i + 1
          /\ UNCHANGED <<pc, outcome>>
     ELSE /\ Receive(Throw(call.result.error))
          /\ UNCHANGED <<results, i>>

Normalize ==
  /\ pc = "idle"
  /\ \E j \in 1..Len(wallet.xpubs) :
       /\ fn' = "normalize"
       /\ key' = wallet.xpubs[j]
       /\ Receive(normalizeToNeutralPub(wallet.xpubs[j]))
  /\ UNCHANGED <<wallet, req, params, i, results, attempted, warnings>>

Build ==
  /\ pc = "idle"
  /\ \E change \in Changes, index \in {0, 1}, network \in Networks,
        strictBip48 \in StrictFlags :
       /\ fn' = "build"
       /\ req' = [m |-> wallet.m, xpubs |-> wallet.xpubs, change |-> change,
                  index |-> index, network |-> network, strictBip48 |-> strictBip48]
       /\ Built(buildBip48P2wshAddress(req'))
  /\ UNCHANGED <<wallet, key, params, i, results, attempted>>

\* the call of deriveBip48Addresses, up to the for loop
Derive ==
  /\ pc = "idle"
  /\ wallet.xpubs \in [1..2 -> SampleKeys]
  /\ isInteger(wallet.m)
  /\ \E change \in Changes, start \in {0, HardenedOffset - 2}, count \in (-1)..MaxCount,
        options \in PathOptions, network \in {Undefined(""), Some("signet")},
        strictBip48 \in {Undefined(FALSE), Some(FALSE)} :
       /\ params' = [m |-> wallet.m, xpubs |-> wallet.xpubs, change |-> change,
                     start |-> start, count |-> count, account |-> options.account,
                     scriptType |-> options.scriptType, coinType |-> options.coinType,
                     network |-> network, strictBip48 |-> strictBip48]
       /\ fn' = "derive"
       /\ pc' = "loop"
       /\ i' = 0
       /\ results' = <<>>
  /\ UNCHANGED <<wallet, key, req, attempted, outcome, warnings>>

\* one iteration of the for loop; a throw of the builder leaves the function
DeriveStep ==
  /\ pc = "loop"
  /\ i < params.count
  /\ req' = baseRequest(params, params.start + i)
  /\ attempted' = Append(attempted, params.start + i)
  /\ Pushed(params.start + i, buildBip48P2wshAddress(req'))
  /\ UNCHANGED <<wallet, fn, key, params>>

\* the loop condition fails: return results
DeriveReturn ==
  /\ pc = "loop"
  /\ ~(i < params.count)
  /\ pc' = "returned"
  /\ outcome' = Ok(results)
  /\ UNCHANGED <<wallet, fn, key, req, params, i, results, attempted, warnings>>

Next == Normalize \/ Build \/ Derive \/ DeriveStep \/ DeriveReturn

Spec == Init /\ [][Next]_vars

(***************************************************************************)
(* Vocabulary of the properties, stated on the inputs themselves.          *)
(***************************************************************************)
MainnetFamily == {"xpub", "ypub", "zpub", "Ypub", "Zpub"}

TestnetFamily == {"tpub", "upub", "vpub", "Upub", "Vpub"}

SingleSigFlavoured == {"ypub", "zpub", "upub", "vpub"}

\* a validly check-encoded 78-byte extended public key of a known family
IsValidKey(k) == k.chk /\ k.payload.len = 78 /\ k.pfx \in MainnetFamily \cup TestnetFamily

FamilyOf(k) == IF k.pfx \in MainnetFamily THEN "mainnet" ELSE "testnet"

\* m is an integer with lo <= m <= hi
IntegerIn(m, lo, hi) == \E k \in lo..hi : m.num = k * m.den

ValidThreshold(r) == IntegerIn(r.m, 1, Len(r.xpubs))

AllValidKeys(r) == \A j \in 1..Len(r.xpubs) : IsValidKey(r.xpubs[j])

OneFamily(r) == \A j \in 1..Len(r.xpubs) : FamilyOf(r.xpubs[j]) = FamilyOf(r.xpubs[1])

\* a threshold and count the guard accepts, with valid keys of one family
ValidCosignerSet(r) ==
  ValidThreshold(r) /\ Len(r.xpubs) <= 15 /\ AllValidKeys(r) /\ OneFamily(r)

\* the network option is omitted or names the family of the keys
SameFamilyOption(r) ==
  ~r.network.set
  \/ (r.network.val = "mainnet" /\ FamilyOf(r.xpubs[1]) = "mainnet")
  \/ (r.network.val \in {"testnet", "signet"} /\ FamilyOf(r.xpubs[1]) = "testnet")

Unhardened(r) ==
  r.change \in 0..(HardenedOffset - 1) /\ r.index \in 0..(HardenedOffset - 1)

\* the key k with its version bytes rewritten to its family's neutral version
NeutralForm(k) ==
  IF FamilyOf(k) = "mainnet"
  THEN [pfx |-> "xpub", chk |-> TRUE, payload |-> [k.payload EXCEPT !.version = 76067358]]
  ELSE [pfx |-> "tpub", chk |-> TRUE, payload |-> [k.payload EXCEPT !.version = 70617039]]

\* two outcomes of the builder agree: both throw, or both return the same value
SameOutcome(a, b) == a.ok = b.ok /\ (a.ok => a.value = b.value)

\* the builder has been called (directly, or by the deriver's loop) on req
BuilderCalled == fn = "build" \/ (fn = "derive" /\ attempted # <<>>)

BuilderThrew == BuilderCalled /\ pc = "thrown"

BuilderReturned == BuilderCalled /\ pc # "thrown"

\* a direct call of the builder has ended
BuildEnded == fn = "build" /\ pc \in {"returned", "thrown"}

(***************************************************************************)
(* C1 -- Order-independence.                                               *)
(***************************************************************************)
Permuted(xpubs, sigma) == [j \in 1..Len(xpubs) |-> xpubs[sigma[j]]]

\* every permutation of a short list; for the lists at the cosigner limit,
\* the swap of the first two, the rotation and the reversal
Rearrangements(n) ==
  IF n <= MaxLen + 2 THEN Permutations(1..n)
  ELSE {[j \in 1..n |-> IF j = 1 THEN 2 ELSE IF j = 2 THEN 1 ELSE j],
        [j \in 1..n |-> (j % n) + 1],
        [j \in 1..n |-> n + 1 - j]}

ChildrenInInputOrder(r) ==
  childPubkeys(mapNormalize(r.xpubs).value,
               networkOf(chosenNet(r, FamilyOf(r.xpubs[1]))), r.change, r.index).value

\* C1: a build of any rearrangement of the cosigner list ends as the build of
\* the original list does, and when they return, with the same address and
\* the same witnessScriptHex.
C1_OrderIndependence ==
  BuildEnded =>
    \A sigma \in Rearrangements(Len(req.xpubs)) :
      LET other == buildBip48P2wshAddress(
                     [req EXCEPT !.xpubs = Permuted(req.xpubs, sigma)]).result
      IN /\ other.ok = outcome.ok
         /\ outcome.ok => /\ other.value.address = outcome.value.address
                          /\ other.value.witnessScriptHex = outcome.value.witnessScriptHex

\* a build has returned for keys whose children were not in ascending order
\* as supplied, and whose descriptor changes under the swap
C1_Witness ==
  /\ BuildEnded /\ pc = "returned" /\ Len(req.xpubs) = 2
  /\ ChildrenInInputOrder(req)[1] > ChildrenInInputOrder(req)[2]
  /\ buildBip48P2wshAddress([req EXCEPT !.xpubs = <<req.xpubs[2], req.xpubs[1]>>])
       .result.value.descriptorConcret # outcome.value.descriptorConcret

(***************************************************************************)
(* C2 -- Threshold and cosigner-count guard.                               *)
(***************************************************************************)
GuardOutcome ==
  /\ ~ValidThreshold(req) => pc = "thrown" /\ outcome.error = "Invalid threshold m"
  /\ (ValidThreshold(req) /\ Len(req.xpubs) > 15) =>
       pc = "thrown" /\ outcome.error = "Too many cosigners"

\* C2 as stated: a bad threshold fails with InvalidThreshold, else more than
\* 15 cosigners fail with TooManyCosigners, whatever the keys are, and valid
\* keys of one family under a passing guard make the call succeed.
C2_AsStated ==
  BuilderCalled => /\ GuardOutcome
                   /\ ValidCosignerSet(req) => pc # "thrown"

\* C2 amended: the two guard outcomes as stated; the call succeeds when the
\* guard passes, the keys are valid and of one family, the network option is
\* omitted or of that family, and change and index are unhardened.
C2_ThresholdGuard ==
  BuilderCalled =>
    /\ GuardOutcome
    /\ (ValidCosignerSet(req) /\ SameFamilyOption(req) /\ Unhardened(req)) => pc # "thrown"

\* the guard has thrown TooManyCosigners on a list holding a malformed key
\* (a witness of "before any key is examined")
C2_Witness ==
  /\ BuildEnded /\ Len(req.xpubs) = 16 /\ ValidThreshold(req)
  /\ \E j \in 1..16 : ~IsValidKey(req.xpubs[j])
  /\ outcome.error = "Too many cosigners"

(***************************************************************************)
(* C3 -- Mixed networks.                                                   *)
(***************************************************************************)
\* C3: with a passing guard, keys that all normalize, and both families in
\* the list, the builder throws MixedNetworks, whatever the network option.
C3_MixedNetworks ==
  (/\ BuilderCalled
   /\ ValidThreshold(req) /\ Len(req.xpubs) <= 15
   /\ \A j \in 1..Len(req.xpubs) : normalizeToNeutralPub(req.xpubs[j]).ok
   /\ \E j \in 1..Len(req.xpubs) : req.xpubs[j].pfx \in MainnetFamily
   /\ \E j \in 1..Len(req.xpubs) : req.xpubs[j].pfx \in TestnetFamily)
  => (pc = "thrown" /\ outcome.error = "Mixed networks in keys")

\* a mixed list whose first and last keys are of the same family, under an
\* override, has been rejected
C3_Witness ==
  /\ BuildEnded /\ Len(req.xpubs) = 15 /\ req.network.set
  /\ req.xpubs[1].pfx \in TestnetFamily /\ req.xpubs[2].pfx \in MainnetFamily
  /\ outcome.error = "Mixed networks in keys"

(***************************************************************************)
(* C4 -- No result from a bad key.                                         *)
(***************************************************************************)
\* C4: a list holding a key that is empty, of unknown prefix or not a validly
\* check-encoded extended public key never yields a result.
C4_BadKeyFails ==
  (BuilderCalled /\ \E j \in 1..Len(req.xpubs) : ~IsValidKey(req.xpubs[j]))
  => (pc = "thrown" /\ ~outcome.ok)

\* a malformed key with a neutral prefix, in second position behind a valid
\* key and under a passing guard, has made the build fail
C4_Witness ==
  /\ BuildEnded /\ pc = "thrown" /\ Len(req.xpubs) = 2 /\ ValidThreshold(req)
  /\ IsValidKey(req.xpubs[1])
  /\ req.xpubs[2].pfx = "xpub" /\ ~req.xpubs[2].chk

(***************************************************************************)
(* C5 -- Network resolution.                                               *)
(***************************************************************************)
EffectiveHrp(r) ==
  IF (r.network.set /\ r.network.val = "mainnet")
     \/ (~r.network.set /\ FamilyOf(r.xpubs[1]) = "mainnet")
  THEN "bc" ELSE "tb"

\* C5: for a valid cosigner set of one family, the build under an omitted or
\* same-family network option returns what the build with the option omitted
\* returns, its address carrying the effective network's prefix; the build
\* under an option of the other family throws.
C5_NetworkResolution ==
  (BuildEnded /\ ValidCosignerSet(req)) =>
    IF SameFamilyOption(req)
    THEN /\ pc = "returned"
         /\ SameOutcome(outcome,
                        buildBip48P2wshAddress(
                          [req EXCEPT !.network = Undefined("")]).result)
         /\ outcome.value.address
              = EffectiveHrp(req) \o "1q" \o outcome.value.witnessScriptHex
    ELSE pc = "thrown" /\ ~outcome.ok

\* a mainnet override on testnet-like keys has been rejected
C5_RejectedWitness ==
  /\ BuildEnded /\ ValidCosignerSet(req) /\ pc = "thrown"
  /\ req.network.set /\ req.network.val = "mainnet"
  /\ FamilyOf(req.xpubs[1]) = "testnet"

(***************************************************************************)
(* C6 -- Strict-mode advisory.                                             *)
(***************************************************************************)
IsSingleSig(k) == k.pfx \in SingleSigFlavoured

StrictOn(r) == ~r.strictBip48.set \/ r.strictBip48.val

ExpectedWarnings(xpubs) ==
  LET flagged == SelectSeq(xpubs, IsSingleSig)
  IN [j \in 1..Len(flagged) |-> [raw |-> flagged[j], p |-> flagged[j].pfx]]

\* C6: a build that returns has warned once per single-sig flavoured key, in
\* cosigner order, when strict mode is on (or omitted) and not at all when
\* it is off, and returns the same result with the flag on and off.
C6_StrictAdvisory ==
  (BuildEnded /\ pc = "returned") =>
    /\ warnings = IF StrictOn(req) THEN ExpectedWarnings(req.xpubs) ELSE <<>>
    /\ SameOutcome(outcome,
                   buildBip48P2wshAddress([req EXCEPT !.strictBip48 = Some(TRUE)]).result)
    /\ SameOutcome(outcome,
                   buildBip48P2wshAddress([req EXCEPT !.strictBip48 = Some(FALSE)]).result)

\* a build with the flag omitted has warned about two different keys
C6_Witness ==
  /\ BuildEnded /\ pc = "returned" /\ ~req.strictBip48.set
  /\ Len(warnings) = 2 /\ warnings[1].p # warnings[2].p

(***************************************************************************)
(* C7 -- Descriptor content.                                               *)
(***************************************************************************)
ExpectedDescriptor(r, suffix) ==
  [open |-> "wsh(sortedmulti(",
   m |-> ToString(r.m.num \div r.m.den),
   keys |-> [j \in 1..Len(r.xpubs) |-> [key |-> NeutralForm(r.xpubs[j]), path |-> suffix]],
   close |-> "))"]

\* C7: a returned build carries wsh(sortedmulti(m, K1/0/*, ..., Kn/0/*)) and
\* wsh(sortedmulti(m, K1/change/index, ...)), Ki the neutral form of the
\* i-th supplied key, in input order.
C7_DescriptorContent ==
  (BuildEnded /\ pc = "returned") =>
    /\ outcome.value.descriptorTemplate = ExpectedDescriptor(req, "/0/*")
    /\ outcome.value.descriptorConcret
         = ExpectedDescriptor(req, "/" \o ToString(req.change) \o "/" \o ToString(req.index))

\* a build on the internal chain has returned for two keys of SLIP-132
\* prefixes whose children sort against the input order
C7_Witness ==
  /\ BuildEnded /\ pc = "returned" /\ Len(req.xpubs) = 2
  /\ req.change = 1 /\ req.index = 0
  /\ req.xpubs[1].pfx \notin {"xpub", "tpub"}
  /\ ChildrenInInputOrder(req)[1] > ChildrenInInputOrder(req)[2]

(***************************************************************************)
(* C8 -- Range derivation.                                                 *)
(***************************************************************************)
ExpectedPath(p, index) ==
  "m/48'/" \o ToString(IF p.coinType.set THEN p.coinType.val ELSE 1)
  \o "'/" \o ToString(IF p.account.set THEN p.account.val ELSE 0)
  \o "'/" \o ToString(IF p.scriptType.set THEN p.scriptType.val ELSE 2)
  \o "'/" \o ToString(p.change) \o "/" \o ToString(index)

SingleBuild(p, index) ==
  buildBip48P2wshAddress([m |-> p.m, xpubs |-> p.xpubs, change |-> p.change,
                          index |-> index, network |-> p.network,
                          strictBip48 |-> p.strictBip48]).result

\* C8: a range over valid inputs throws only at a hardened index; a returned
\* range holds count results (none when count <= 0), the k-th
\* with index start+k-1, the fields of the single build at that index, and
\* the path m/48'/coinType'/account'/scriptType'/change/index.
C8_RangeDerivation ==
  /\ (/\ fn = "derive" /\ pc = "thrown"
      /\ ValidCosignerSet(params) /\ SameFamilyOption(params))
     => req.index >= HardenedOffset
  /\ (fn = "derive" /\ pc = "returned") =>
    /\ outcome.ok
    /\ Len(outcome.value) = IF params.count > 0 THEN params.count ELSE 0
    /\ \A k \in 1..Len(outcome.value) :
         LET r == outcome.value[k]
             single == SingleBuild(params, params.start + k - 1)
         IN /\ r.index = params.start + k - 1
            /\ single.ok
            /\ r.address = single.value.address
            /\ r.witnessScriptHex = single.value.witnessScriptHex
            /\ r.descriptorTemplate = single.value.descriptorTemplate
            /\ r.descriptorConcret = single.value.descriptorConcret
            /\ r.path = ExpectedPath(params, r.index)

\* a range of two addresses from a positive start, with every path option
\* omitted, has returned
C8_Witness ==
  /\ fn = "derive" /\ pc = "returned" /\ params.count = 2 /\ params.start > 0
  /\ ~params.coinType.set /\ ~params.account.set /\ ~params.scriptType.set
  /\ outcome.value[2].path = "m/48'/1'/0'/2'/" \o ToString(params.change) \o "/"
                              \o ToString(params.start + 1)

(***************************************************************************)
(* C9 -- Batch abort.                                                      *)
(***************************************************************************)
\* C9: once the builder has failed on an index of the range, the deriver has
\* thrown the builder's error, the caller holds no result, the indices
\* attempted are start up to the failing one, and no step follows.
C9_BatchAbort ==
  (fn = "derive" /\ attempted # <<>> /\ ~SingleBuild(params, req.index).ok) =>
    /\ pc = "thrown"
    /\ ~outcome.ok
    /\ outcome.error = SingleBuild(params, req.index).error
    /\ outcome.value = <<>>
    /\ attempted = [k \in 1..(i + 1) |-> params.start + k - 1]
    /\ req.index = params.start + i
    /\ \A k \in 1..i : SingleBuild(params, params.start + k - 1).ok
    /\ ~ENABLED Next

\* the builder has failed on the third index, after two results were computed
C9_Witness ==
  /\ fn = "derive" /\ pc = "thrown" /\ Len(results) = 2
  /\ Len(attempted) = 3
  /\ outcome.error = "Missing private key for hardened child key"

(***************************************************************************)
(* C10 -- Normalization is idempotent and a no-op on neutral keys.         *)
(***************************************************************************)
\* C10: normalizing the normalized form of a valid key returns it again with
\* the same network, and a key with its network's neutral prefix is returned
\* unchanged.
C10_NormalizeIdempotent ==
  (fn = "normalize" /\ IsValidKey(key)) =>
    /\ outcome.ok
    /\ normalizeToNeutralPub(outcome.value.neutral).ok
    /\ normalizeToNeutralPub(outcome.value.neutral).value = outcome.value
    /\ key.pfx \in {"xpub", "tpub"} => outcome.value.neutral = key

\* a key of a SLIP-132 prefix has been normalized to a different string
C10_Witness ==
  /\ fn = "normalize" /\ IsValidKey(key) /\ pc = "returned"
  /\ key.pfx \in {"Zpub", "vpub"}
  /\ outcome.value.neutral # key

(***************************************************************************)
(* C11 -- Normalization is a version-only rewrite.                         *)
(***************************************************************************)
\* C11: the normalized form of a valid key is a validly check-encoded key
\* whose version is the neutral constant of the key's own network and whose
\* depth, parent fingerprint, child number, chain code and public key are
\* those of the input.
C11_VersionOnlyRewrite ==
  (fn = "normalize" /\ IsValidKey(key)) =>
    /\ outcome.ok
    /\ outcome.value.neutral.chk
    /\ outcome.value.neutral.payload.len = key.payload.len
    /\ outcome.value.neutral.payload.version
         = IF key.pfx \in MainnetFamily THEN 76067358 ELSE 70617039
    /\ outcome.value.neutral.payload.body.depth = key.payload.body.depth
    /\ outcome.value.neutral.payload.body.parentFingerprint
         = key.payload.body.parentFingerprint
    /\ outcome.value.neutral.payload.body.index = key.payload.body.index
    /\ outcome.value.neutral.payload.body.chainCode = key.payload.body.chainCode
    /\ outcome.value.neutral.payload.body.publicKey = key.payload.body.publicKey

\* a key of a testnet SLIP-132 prefix has had its version rewritten
C11_Witness ==
  /\ fn = "normalize" /\ pc = "returned" /\ IsValidKey(key)
  /\ key.pfx \in {"upub", "Upub"}
  /\ outcome.value.neutral.payload.version # key.payload.version
  /\ outcome.value.neutral.payload.body.depth = 4

(***************************************************************************)
(* C12 -- The normalizer on malformed input of a known prefix.             *)
(***************************************************************************)
Malformed(k) == ~k.chk \/ k.payload.len < 4

\* C12 as stated: for an input of any known prefix whose check-encoding is
\* invalid or whose payload is shorter than 4 bytes, the normalizer throws
\* and never returns the input as a normalized key.
C12_AsStated ==
  (/\ fn = "normalize"
   /\ key.pfx \in MainnetFamily \cup TestnetFamily
   /\ Malformed(key))
  => (pc = "thrown" /\ ~outcome.ok)

(***************************************************************************)
(* C13 -- Order of the keys in the descriptors.                            *)
(***************************************************************************)
SameNeutralSequence(xpubs, sigma) ==
  \A j \in 1..Len(xpubs) : NeutralForm(xpubs[sigma[j]]) = NeutralForm(xpubs[j])

\* C13 as stated: two builds whose cosigner lists are permutations of each
\* other return identical descriptorTemplate and descriptorConcret.
C13_AsStated ==
  (BuildEnded /\ pc = "returned") =>
    \A sigma \in Rearrangements(Len(req.xpubs)) :
      LET other == buildBip48P2wshAddress(
                     [req EXCEPT !.xpubs = Permuted(req.xpubs, sigma)]).result
      IN /\ other.ok
         /\ other.value.descriptorTemplate = outcome.value.descriptorTemplate
         /\ other.value.descriptorConcret = outcome.value.descriptorConcret

\* C13 amended: the keys of both descriptors follow the order in which the
\* cosigners were supplied: the build of a rearranged list returns the
\* descriptors of the original build with their keys rearranged in the same
\* way, and they are identical to the original's exactly when the
\* rearrangement leaves the sequence of normalized keys unchanged.
C13_DescriptorsFollowInput ==
  (BuildEnded /\ pc = "returned") =>
    \A sigma \in Rearrangements(Len(req.xpubs)) :
      LET other == buildBip48P2wshAddress(
                     [req EXCEPT !.xpubs = Permuted(req.xpubs, sigma)]).result
          was == outcome.value
      IN /\ other.ok
         /\ other.value.descriptorTemplate
              = [was.descriptorTemplate EXCEPT !.keys = Permuted(@, sigma)]
         /\ other.value.descriptorConcret
              = [was.descriptorConcret EXCEPT !.keys = Permuted(@, sigma)]
         /\ (other.value.descriptorTemplate = was.descriptorTemplate)
              <=> SameNeutralSequence(req.xpubs, sigma)
         /\ (other.value.descriptorConcret = was.descriptorConcret)
              <=> SameNeutralSequence(req.xpubs, sigma)

\* a build has returned for two keys supplied in descending order of their
\* public key bytes, and the build of the swapped list returns another template
C13_Witness ==
  /\ BuildEnded /\ pc = "returned" /\ Len(req.xpubs) = 2
  /\ req.xpubs[1].payload.body.publicKey > req.xpubs[2].payload.body.publicKey
  /\ outcome.value.descriptorTemplate.keys[1].key = NeutralForm(req.xpubs[1])
  /\ buildBip48P2wshAddress([req EXCEPT !.xpubs = <<req.xpubs[2], req.xpubs[1]>>])
       .result.value.descriptorTemplate # outcome.value.descriptorTemplate

====
